---- MODULE Spec2Model ----
(***************************************************************************)
(* A model of the concurrency primitives of include/caffe/common.hpp:      *)
(*   - class Flag            (mutex + condition variable event)            *)
(*   - class ThreadSafeMap   (std::map behind a shared mutex)              *)
(*   - atomic_maximum / atomic_minimum (compare_exchange_weak loops)       *)
(*   - class Caffe: the epoch counter, set_mode and set_gpus               *)
(* Every method is split at the points where another thread can run:       *)
(* taking the mutex, the critical section, and the notify_all that follows *)
(* the critical section.                                                   *)
(***************************************************************************)
EXTENDS Integers, FiniteSets, Sequences, TLC

\* ------------------------------------------------------------------ bounds
FlagThreads == 3
MapThreads == 2
MapKeys == 2
MapVals == 1
DrainKeys == 3
MaxEmptyCalls == 2
InsVals == 3
AtomThreads == 3
AtomVals == 2
EpochThreads == 2
ModeThreads == 2
MaxModeCalls == 3
LaneThreads == 2
LaneGroups == 2
GpuThreads == 2
MaxSets == 2
MaxWaits == 2
MaxInserts == 2
\* the spurious compare_exchange_weak failures that are counted
MaxSpurious == 2
\* the threads whose calls are followed to their return
RetryThreads == 2
\* the threads that read the device set
ReadThreads == 2
MaxDevice == 1
MaxGpus == 3

FThreads == 1..FlagThreads

\* the threads that use the maps, the keys they use and the mapped values;
\* DefaultValue is what operator[] inserts, mapped_type()
END == 0
DefaultValue == 0
MThreads == 1..MapThreads
Keys == 1..MapKeys
Vals == DefaultValue..MapVals

\* the keys of a map that is drained, the values offered to insert_max
DKeys == 1..DrainKeys
IVals == 1..InsVals

\* the threads that call atomic_minimum / atomic_maximum once each, and the
\* values of Dtype they propose
AThreads == 1..AtomThreads
AVals == 0..AtomVals

\* the threads that call report_epoch_count
EThreads == 1..EpochThreads
RThreads == 1..RetryThreads

\* the threads that call Caffe::set_mode; enum Brew { CPU, GPU }
SThreads == 1..ModeThreads
Brew == {"CPU", "GPU"}

\* the threads that ask for a lane and the thread groups they ask for
LThreads == 1..LaneThreads
Groups == 0..(LaneGroups - 1)

\* the threads that call set_gpus, the device ordinals and the lists passed
GThreads == 1..GpuThreads
Devices == 0..MaxDevice
GpuLists == UNION {[1..n -> Devices] : n \in 0..MaxGpus}

\* the threads that call gpus() and device_in_use_per_host_count()
Readers == 1..ReadThreads

\* two ThreadSafeMap objects constructed on the same std::mutex
Maps == {1, 2}

\* ------------------------------------------------------------------- state
VARIABLES
  flag_,      \* Flag::flag_
  disarmed_,  \* Flag::disarmed_
  m_,         \* Flag::m_ : 0 when free, else the thread that holds it
  cv_,        \* Flag::cv_ : the threads parked in cv_.wait
  fpc,        \* per thread: where it is inside a Flag method
  fblk,       \* per thread inside wait()/wait_reset(): it has parked at least once
  fseen,      \* per thread in wait_reset(): the flag_ it saw when its predicate held
  map_,       \* ThreadSafeMap::map_ of each map: the keys present and their values
  map_m_,     \* ThreadSafeMap::m_, the shared mutex: 0 when free, else its holder
  mpc,        \* per thread: where it is inside a ThreadSafeMap method
  mobj,       \* per thread: the map the method was called on (this)
  mkey,       \* per thread: the argument key
  mval,       \* per thread: the argument value
  mit,        \* per thread: the local iterator it (a key, or END)
  mres,       \* per thread: the value the method returns
  okey,       \* per thread: the caller's variable bound to remove_top's key&
  oval,       \* per thread: the caller's variable bound to remove_top's value&
  lin,        \* history: the maps after the calls so far, applied one at a time
              \*          in the order in which they took the mutex
  lres,       \* history: per thread, what its call returns when applied that way
  offered,    \* history: the (key, value) pairs passed to insert_max so far
  map0,       \* history: the map a drain started from
  popped,     \* history: the (key, value) pairs a drain got, in order
  empties,    \* history: the remove_top calls of a drain that reported empty
  ins,        \* history: per key, the entries created in the first map
  rem,        \* history: per key, the entries remove_top has returned from it
  aval,       \* the std::atomic<Dtype> (max_val / min_val)
  akind,      \* which of atomic_minimum ("min") / atomic_maximum ("max") is called
  ainit,      \* history: the value the atomic held before the calls
  apc,        \* per thread: where it is inside the function
  aprev,      \* per thread: the local prev_val
  anew,       \* per thread: the argument new_val
  reported,   \* history: the values passed to report_epoch_count so far
  epc,        \* where the thread that calls epoch_count() is
  ecount,     \* the value epoch_count() returns
  mode_,      \* Caffe::mode_
  caffe_mutex_, \* Caffe::caffe_mutex_ : 0 when free, else its holder
  spc,        \* per thread: where it is inside set_mode
  smode,      \* per thread: the argument mode
  sold,       \* history: per thread, mode_ when it called set_mode
  salone,     \* history: per thread, no other set_mode call has overlapped its call
  sinit,      \* history: per thread, the init() invocations of its call
  scalls,     \* history: the set_mode calls made so far
  inits,      \* history: the init() invocations so far
  transitions, \* history: the times mode_ has changed value
  streams_,   \* Caffe::streams_ : per group "none" or the mode its lane was
              \*                   created under
  pstream_mutex_, \* Caffe::pstream_mutex_ : 0 when free, else its holder
  lpc,        \* per thread: where it is inside pstream(group)
  lgroup,     \* per thread: the argument group
  lget,       \* per thread: the lane pstream(group) returns (its mode)
  gpus_,      \* Caffe::gpus_
  root_device_, \* Caffe::root_device_
  gpc,        \* per thread: where it is inside set_gpus
  garg,       \* per thread: the argument gpus
  gset,       \* history: some set_gpus call has returned
  flag0,      \* history: the state the Flag was constructed with
  nset,       \* history: the times set() has assigned flag_
  nwr,        \* history: the wait_reset() calls that passed their predicate
              \*          while the flag was armed
  hreset,     \* history: reset() has been called
  nwait,      \* history: the wait() calls that have returned
  nspur,      \* history: the compare_exchange_weak calls that have failed
              \*          spuriously (it stops counting at MaxSpurious)
  rpc,        \* per reader: "idle", or the function it has just called
  rlist,      \* per reader: what gpus() referred to when it was read
  rcount      \* per reader: what device_in_use_per_host_count() returned

flagVars == <<flag_, disarmed_, m_, cv_, fpc, fblk, fseen>>

mapVars == <<map_, map_m_, mpc, mobj, mkey, mval, mit, mres, okey, oval, lin, lres>>

mapHistory == <<offered, map0, popped, empties, ins, rem>>

atomVars == <<aval, akind, ainit, apc, aprev, anew>>

epochVars == <<reported, epc, ecount>>

modeVars ==
  <<mode_, caffe_mutex_, spc, smode, sold, salone, sinit, scalls, inits,
    transitions>>

laneVars == <<streams_, pstream_mutex_, lpc, lgroup, lget>>

gpuVars == <<gpus_, root_device_, gpc, garg, gset>>

flagHistory == <<flag0, nset, nwr, hreset, nwait>>

atomHistory == <<nspur>>

readVars == <<rpc, rlist, rcount>>

vars ==
  <<flagVars, flagHistory, mapVars, mapHistory, atomVars, atomHistory,
    epochVars, modeVars, laneVars, gpuVars, readVars>>

notFlagVars ==
  <<mapVars, mapHistory, atomVars, atomHistory, epochVars, modeVars, laneVars,
    gpuVars, readVars>>

notMapVars ==
  <<flagVars, flagHistory, atomVars, atomHistory, epochVars, modeVars,
    laneVars, gpuVars, readVars>>

notAtomVars ==
  <<flagVars, flagHistory, mapVars, mapHistory, epochVars, modeVars, laneVars,
    gpuVars, readVars>>

notEpochVars ==
  <<flagVars, flagHistory, mapVars, mapHistory, atomHistory, modeVars,
    laneVars, gpuVars, readVars>>

notModeVars ==
  <<flagVars, flagHistory, mapVars, mapHistory, atomVars, atomHistory,
    epochVars, gpuVars, readVars>>

\* what set_gpus leaves alone: all but gpuVars and caffe_mutex_
notGpuVars ==
  <<flagVars, flagHistory, mapVars, mapHistory, atomVars, atomHistory,
    epochVars, laneVars, mode_, spc, smode, sold, salone, sinit, scalls, inits,
    transitions, readVars>>

notReadVars ==
  <<flagVars, flagHistory, mapVars, mapHistory, atomVars, atomHistory,
    epochVars, modeVars, laneVars, gpuVars>>

\* =================================================================== Flag

\* explicit Flag(bool state = false) : flag_(state), disarmed_(false)
FlagConstructed ==
  /\ flag_ \in BOOLEAN
  /\ disarmed_ = FALSE
  /\ m_ = 0
  /\ cv_ = {}
  /\ fpc = [t \in FThreads |-> "idle"]
  /\ fblk = [t \in FThreads |-> FALSE]
  /\ fseen = [t \in FThreads |-> "none"]

\* no call of the Flag has been counted
FlagUncounted ==
  /\ nset = 0
  /\ nwr = 0
  /\ hreset = FALSE
  /\ nwait = 0

\* bool is_set() const { lock_guard lock(m_); return flag_; }
is_set == flag_

\* std::lock_guard / std::unique_lock constructor on entry of a method
FlagLock(t, to) ==
  /\ fpc[t] = "idle"
  /\ m_ = 0
  /\ m_' = t
  /\ fpc' = [fpc EXCEPT ![t] = to]
  /\ fblk' = [fblk EXCEPT ![t] = FALSE]
  /\ UNCHANGED <<flag_, disarmed_, cv_, fseen>>

\* cv_.notify_all(): every parked thread leaves the wait set and has to take
\* the mutex again before it evaluates its predicate
Relock(pcv) ==
  IF pcv = "wait_blocked" THEN "wait_relock"
  ELSE IF pcv = "wr_blocked" THEN "wr_relock"
  ELSE pcv

\* the bug of a method that changes the state and forgets to notify
NotifyAll_Forgotten(t) ==
  /\ cv_' = cv_
  /\ fpc' = [fpc EXCEPT ![t] = "idle"]

NotifyAll(t) ==
  /\ cv_' = {}
  /\ fpc' = [u \in FThreads |->
               IF u = t THEN "idle"
               ELSE IF u \in cv_ THEN Relock(fpc[u]) ELSE fpc[u]]

\* ---- void set()
set_Lock(t) == FlagLock(t, "set_cs") /\ UNCHANGED notFlagVars

set_Body(t) ==
  /\ fpc[t] = "set_cs" /\ m_ = t
  /\ flag_' = TRUE
  /\ m_' = 0
  /\ fpc' = [fpc EXCEPT ![t] = "notify"]
  /\ UNCHANGED <<disarmed_, cv_, fblk, fseen>>
  /\ UNCHANGED notFlagVars

\* ---- void reset()
reset_Lock(t) == FlagLock(t, "reset_cs") /\ UNCHANGED notFlagVars

reset_Body(t) ==
  /\ fpc[t] = "reset_cs" /\ m_ = t
  /\ flag_' = FALSE
  /\ m_' = 0
  /\ fpc' = [fpc EXCEPT ![t] = "notify"]
  /\ UNCHANGED <<disarmed_, cv_, fblk, fseen>>
  /\ UNCHANGED notFlagVars

\* cv_.notify_all() after the critical section of set() or of reset(): the
\* two methods end alike, so one label stands for both
set_reset_Notify(t) ==
  /\ fpc[t] = "notify"
  /\ NotifyAll(t)
  /\ UNCHANGED <<flag_, disarmed_, m_, fblk, fseen>>
  /\ UNCHANGED notFlagVars

\* ---- void disarm()
\* the bug of a disarm() that toggles instead of latching
DisarmValue_Toggles(d) == ~d

DisarmValue(d) == TRUE

disarm_Lock(t) == FlagLock(t, "disarm_cs") /\ UNCHANGED notFlagVars

disarm_Body(t) ==
  /\ fpc[t] = "disarm_cs" /\ m_ = t
  /\ disarmed_' = DisarmValue(disarmed_)
  /\ m_' = 0
  /\ fpc' = [fpc EXCEPT ![t] = "disarm_notify"]
  /\ UNCHANGED <<flag_, cv_, fblk, fseen>>
  /\ UNCHANGED notFlagVars

disarm_Notify(t) ==
  /\ fpc[t] = "disarm_notify"
  /\ NotifyAll(t)
  /\ UNCHANGED <<flag_, disarmed_, m_, fblk, fseen>>
  /\ UNCHANGED notFlagVars

\* ---- void wait() const : cv_.wait(lock, [this] { return flag_; })
\* a wait() that also gives up when the flag is disarmed
WaitPredicate_Disarmable(f, d) == f \/ d

\* a wait() that returns on any wake-up
WaitPredicate_Always(f, d) == TRUE

WaitPredicate(f, d) == f

wait_Lock(t) == FlagLock(t, "wait_pred") /\ UNCHANGED notFlagVars

\* the predicate holds: wait() returns and the unique_lock is released
wait_Return(t) ==
  /\ fpc[t] = "wait_pred" /\ m_ = t
  /\ WaitPredicate(flag_, disarmed_)
  /\ m_' = 0
  /\ fpc' = [fpc EXCEPT ![t] = "idle"]
  /\ fblk' = [fblk EXCEPT ![t] = FALSE]
  /\ UNCHANGED <<flag_, disarmed_, cv_, fseen>>
  /\ UNCHANGED notFlagVars

\* the predicate fails: the mutex is released and the thread parks, atomically
wait_Block(t) ==
  /\ fpc[t] = "wait_pred" /\ m_ = t
  /\ ~WaitPredicate(flag_, disarmed_)
  /\ m_' = 0
  /\ cv_' = cv_ \cup {t}
  /\ fpc' = [fpc EXCEPT ![t] = "wait_blocked"]
  /\ fblk' = [fblk EXCEPT ![t] = TRUE]
  /\ UNCHANGED <<flag_, disarmed_, fseen>>
  /\ UNCHANGED notFlagVars

wait_Relock(t) ==
  /\ fpc[t] = "wait_relock"
  /\ m_ = 0
  /\ m_' = t
  /\ fpc' = [fpc EXCEPT ![t] = "wait_pred"]
  /\ UNCHANGED <<flag_, disarmed_, cv_, fblk, fseen>>
  /\ UNCHANGED notFlagVars

\* ---- void wait_reset()
\*   cv_.wait(lock, [this] { return flag_ || disarmed_; });
\*   if (!disarmed_) { flag_ = false; }
\* the bug of a wait_reset() that ignores disarm()
WaitResetPredicate_IgnoresDisarm(f, d) == f

\* a wait_reset() that returns on any wake-up
WaitResetPredicate_Always(f, d) == TRUE

WaitResetPredicate(f, d) == f \/ d

\* the bug of a wait_reset() that does not consume the state
WaitResetFlag_NeverClears(f, d) == f

\* a wait_reset() that clears the state whether or not the flag is disarmed
WaitResetFlag_AlwaysClears(f, d) == FALSE

WaitResetFlag(f, d) == IF ~d THEN FALSE ELSE f

wait_reset_Lock(t) == FlagLock(t, "wr_pred") /\ UNCHANGED notFlagVars

wait_reset_Consume(t) ==
  /\ fpc[t] = "wr_pred" /\ m_ = t
  /\ WaitResetPredicate(flag_, disarmed_)
  /\ flag_' = WaitResetFlag(flag_, disarmed_)
  /\ m_' = 0
  /\ fpc' = [fpc EXCEPT ![t] = "wr_notify"]
  /\ fseen' = [fseen EXCEPT ![t] = IF flag_ THEN "set" ELSE "clear"]
  /\ UNCHANGED <<disarmed_, cv_, fblk>>
  /\ UNCHANGED notFlagVars

wait_reset_Block(t) ==
  /\ fpc[t] = "wr_pred" /\ m_ = t
  /\ ~WaitResetPredicate(flag_, disarmed_)
  /\ m_' = 0
  /\ cv_' = cv_ \cup {t}
  /\ fpc' = [fpc EXCEPT ![t] = "wr_blocked"]
  /\ fblk' = [fblk EXCEPT ![t] = TRUE]
  /\ UNCHANGED <<flag_, disarmed_, fseen>>
  /\ UNCHANGED notFlagVars

wait_reset_Relock(t) ==
  /\ fpc[t] = "wr_relock"
  /\ m_ = 0
  /\ m_' = t
  /\ fpc' = [fpc EXCEPT ![t] = "wr_pred"]
  /\ UNCHANGED <<flag_, disarmed_, cv_, fblk, fseen>>
  /\ UNCHANGED notFlagVars

wait_reset_Notify(t) ==
  /\ fpc[t] = "wr_notify"
  /\ NotifyAll(t)
  /\ fseen' = [fseen EXCEPT ![t] = "none"]
  /\ fblk' = [fblk EXCEPT ![t] = FALSE]
  /\ UNCHANGED <<flag_, disarmed_, m_>>
  /\ UNCHANGED notFlagVars

\* std::condition_variable::wait may wake without a notification
cv_SpuriousWake(t) ==
  /\ t \in cv_
  /\ cv_' = cv_ \ {t}
  /\ fpc' = [fpc EXCEPT ![t] = Relock(fpc[t])]
  /\ UNCHANGED <<flag_, disarmed_, m_, fblk, fseen>>
  /\ UNCHANGED notFlagVars

\* ========================================================== ThreadSafeMap
\* A std::map is a function from the keys present to their values.

EmptyMap == [x \in {} |-> DefaultValue]

Has(m, k) == k \in DOMAIN m

Put(m, k, v) == [x \in DOMAIN m \cup {k} |-> IF x = k THEN v ELSE m[x]]

\* std::map::emplace and std::map::insert leave a key that is present alone
Emplace(m, k, v) == IF Has(m, k) THEN m ELSE Put(m, k, v)

\* an erase that erases nothing
Del_Nothing(m, k) == m

\* std::map::erase
Del(m, k) == [x \in DOMAIN m \ {k} |-> m[x]]

\* a begin() that starts from the largest key
Begin_Largest(m) ==
  IF DOMAIN m = {} THEN END
  ELSE CHOOSE k \in DOMAIN m : \A j \in DOMAIN m : j <= k

\* std::map::begin(): the smallest key, or end() when the map is empty
Begin(m) ==
  IF DOMAIN m = {} THEN END
  ELSE CHOOSE k \in DOMAIN m : \A j \in DOMAIN m : k <= j

\* insert_max compares the wrong way round
Greater_Reversed(v, cur) == v < cur

\* value > it->second
Greater(v, cur) == v > cur

\* What a call returns and what it leaves in the map when nothing else runs
\* during it: <<the map after, <<return value, key&, value&>> >>.
\* A return value is a tuple (<<>> for void), so that those of different
\* methods can be told apart.
SeqCall(op, m, k, v) ==
  CASE op = "size"   -> <<m, << <<Cardinality(DOMAIN m)>>, END, DefaultValue>> >>
    [] op = "insert" -> <<Emplace(m, k, v),
                          << <<k, ~Has(m, k)>>, END, DefaultValue>> >>
    [] op = "index"  -> <<Emplace(m, k, DefaultValue),
                          << <<IF Has(m, k) THEN m[k] ELSE DefaultValue>>,
                             END, DefaultValue>> >>
    [] op = "find"   -> <<m, << <<IF Has(m, k) THEN k ELSE END>>,
                                END, DefaultValue>> >>
    [] op = "clear"  -> <<EmptyMap, << <<>>, END, DefaultValue>> >>
    [] op = "erase"  -> <<Del(m, k),
                          << <<IF Has(m, k) THEN 1 ELSE 0>>, END, DefaultValue>> >>
    [] op = "insert_max" ->
         <<IF Has(m, k) /\ m[k] >= v THEN m ELSE Put(m, k, v),
           << <<>>, END, DefaultValue>> >>
    [] op = "remove_top" ->
         IF DOMAIN m = {} THEN <<m, << <<FALSE>>, END, DefaultValue>> >>
         ELSE LET top == CHOOSE x \in DOMAIN m : \A j \in DOMAIN m : x <= j
              IN  <<Del(m, top), << <<TRUE>>, top, m[top]>> >>

\* what a thread holds when it is in no method
NoResult == << <<>>, END, DefaultValue>>

\* explicit ThreadSafeMap(std::mutex& m) : m_(m) { lock; map_.reset(new M()); }
MapConstructed ==
  /\ map_ = [o \in Maps |-> EmptyMap]
  /\ lin = map_

\* the mutex is free and no thread is inside a method
MapIdle ==
  /\ map_m_ = 0
  /\ mpc = [t \in MThreads |-> "idle"]
  /\ mobj = [t \in MThreads |-> 1]
  /\ mkey = [t \in MThreads |-> END]
  /\ mval = [t \in MThreads |-> DefaultValue]
  /\ mit = [t \in MThreads |-> END]
  /\ mres = [t \in MThreads |-> <<>>]
  /\ okey = [t \in MThreads |-> END]
  /\ oval = [t \in MThreads |-> DefaultValue]
  /\ lres = [t \in MThreads |-> NoResult]

NoMapHistory ==
  /\ offered = {}
  /\ map0 = EmptyMap
  /\ popped = <<>>
  /\ empties = 0
  /\ ins = [k \in Keys |-> 0]
  /\ rem = [k \in Keys |-> 0]

\* a method entered without its lock_guard
MapLock_Missing(t, op, o, k, v, to) ==
  /\ mpc[t] = "idle"
  /\ map_m_' = map_m_
  /\ mpc' = [mpc EXCEPT ![t] = to]
  /\ mobj' = [mobj EXCEPT ![t] = o]
  /\ mkey' = [mkey EXCEPT ![t] = k]
  /\ mval' = [mval EXCEPT ![t] = v]
  /\ lin' = [lin EXCEPT ![o] = SeqCall(op, lin[o], k, v)[1]]
  /\ lres' = [lres EXCEPT ![t] = SeqCall(op, lin[o], k, v)[2]]

\* std::lock_guard<std::mutex> lock(m_) on entry of method op of map o, called
\* with key k and value v; the caller's key& and value& hold END, DefaultValue
MapLock(t, op, o, k, v, to) ==
  /\ mpc[t] = "idle"
  /\ map_m_ = 0
  /\ map_m_' = t
  /\ mpc' = [mpc EXCEPT ![t] = to]
  /\ mobj' = [mobj EXCEPT ![t] = o]
  /\ mkey' = [mkey EXCEPT ![t] = k]
  /\ mval' = [mval EXCEPT ![t] = v]
  /\ lin' = [lin EXCEPT ![o] = SeqCall(op, lin[o], k, v)[1]]
  /\ lres' = [lres EXCEPT ![t] = SeqCall(op, lin[o], k, v)[2]]

\* a method whose body is one call of std::map: the lock is taken, the call is
\* made and its value is ready to be returned
MapSimple(t, op, o, k, v, after, res) ==
  /\ MapLock(t, op, o, k, v, "ret")
  /\ map_' = [map_ EXCEPT ![o] = after]
  /\ mres' = [mres EXCEPT ![t] = res]
  /\ UNCHANGED <<mit, okey, oval>>
  /\ UNCHANGED notMapVars

\* size_type size() const
size_Call(t, o) ==
  MapSimple(t, "size", o, END, DefaultValue,
            map_[o], <<Cardinality(DOMAIN map_[o])>>)

\* std::pair<iterator, bool> insert(const value_type& entry), and emplace
insert_Call(t, o, k, v) ==
  MapSimple(t, "insert", o, k, v,
            Emplace(map_[o], k, v), <<k, ~Has(map_[o], k)>>)

\* mapped_type& operator[](const key_type& key)
index_Call(t, o, k) ==
  MapSimple(t, "index", o, k, DefaultValue,
            Emplace(map_[o], k, DefaultValue),
            <<Emplace(map_[o], k, DefaultValue)[k]>>)

\* iterator find(const key_type& key)
find_Call(t, o, k) ==
  MapSimple(t, "find", o, k, DefaultValue,
            map_[o], <<IF Has(map_[o], k) THEN k ELSE END>>)

\* void clear()
clear_Call(t, o) ==
  MapSimple(t, "clear", o, END, DefaultValue, EmptyMap, <<>>)

\* size_type erase(const key_type& key)
erase_Call(t, o, k) ==
  MapSimple(t, "erase", o, k, DefaultValue,
            Del(map_[o], k), <<IF Has(map_[o], k) THEN 1 ELSE 0>>)

\* the return statement and the lock_guard's destructor; the caller then
\* takes what was returned
MapReturn(t) ==
  /\ mpc[t] = "ret"
  /\ map_m_' = 0
  /\ mpc' = [mpc EXCEPT ![t] = "idle"]
  /\ mit' = [mit EXCEPT ![t] = END]
  /\ mres' = [mres EXCEPT ![t] = <<>>]
  /\ okey' = [okey EXCEPT ![t] = END]
  /\ oval' = [oval EXCEPT ![t] = DefaultValue]
  /\ lres' = [lres EXCEPT ![t] = NoResult]
  /\ mkey' = [mkey EXCEPT ![t] = END]
  /\ mval' = [mval EXCEPT ![t] = DefaultValue]
  /\ mobj' = [mobj EXCEPT ![t] = 1]
  /\ UNCHANGED <<map_, lin>>
  /\ UNCHANGED notMapVars

\* ---- void insert_max(const key_type& key, const mapped_type& value)
insert_max_Lock(t, o, k, v) ==
  /\ MapLock(t, "insert_max", o, k, v, "im_find")
  /\ UNCHANGED <<map_, mit, mres, okey, oval>>
  /\ UNCHANGED notMapVars

\* iterator it = map_->find(key);
insert_max_Find(t) ==
  /\ mpc[t] = "im_find"
  /\ mit' = [mit EXCEPT ![t] =
               IF Has(map_[mobj[t]], mkey[t]) THEN mkey[t] ELSE END]
  /\ mpc' = [mpc EXCEPT ![t] = "im_test"]
  /\ UNCHANGED <<map_, map_m_, mobj, mkey, mval, mres, okey, oval, lin, lres>>
  /\ UNCHANGED notMapVars

\* if (it == map_->end()) { map_->emplace(key, value); }
insert_max_Emplace(t) ==
  /\ mpc[t] = "im_test"
  /\ mit[t] = END
  /\ map_' = [map_ EXCEPT ![mobj[t]] = Emplace(@, mkey[t], mval[t])]
  /\ mpc' = [mpc EXCEPT ![t] = "ret"]
  /\ UNCHANGED <<map_m_, mobj, mkey, mval, mit, mres, okey, oval, lin, lres>>
  /\ UNCHANGED notMapVars

\* else if (value > it->second) { it->second = value; }
\* (an iterator whose element is gone refers to nothing the model can read:
\*  the step reads the element only while the key is present)
insert_max_Raise(t) ==
  /\ mpc[t] = "im_test"
  /\ mit[t] # END
  /\ Has(map_[mobj[t]], mit[t])
  /\ Greater(mval[t], map_[mobj[t]][mit[t]])
  /\ map_' = [map_ EXCEPT ![mobj[t]] = Put(@, mit[t], mval[t])]
  /\ mpc' = [mpc EXCEPT ![t] = "ret"]
  /\ UNCHANGED <<map_m_, mobj, mkey, mval, mit, mres, okey, oval, lin, lres>>
  /\ UNCHANGED notMapVars

insert_max_Keep(t) ==
  /\ mpc[t] = "im_test"
  /\ mit[t] # END
  /\ Has(map_[mobj[t]], mit[t]) => ~Greater(mval[t], map_[mobj[t]][mit[t]])
  /\ mpc' = [mpc EXCEPT ![t] = "ret"]
  /\ UNCHANGED <<map_, map_m_, mobj, mkey, mval, mit, mres, okey, oval, lin, lres>>
  /\ UNCHANGED notMapVars

\* ---- bool remove_top(key_type& key, mapped_type& value)
remove_top_Lock(t, o) ==
  /\ MapLock(t, "remove_top", o, END, DefaultValue, "rt_begin")
  /\ UNCHANGED <<map_, mit, mres, okey, oval>>
  /\ UNCHANGED notMapVars

\* iterator it = map_->begin();
remove_top_Begin(t) ==
  /\ mpc[t] = "rt_begin"
  /\ mit' = [mit EXCEPT ![t] = Begin(map_[mobj[t]])]
  /\ mpc' = [mpc EXCEPT ![t] = "rt_test"]
  /\ UNCHANGED <<map_, map_m_, mobj, mkey, mval, mres, okey, oval, lin, lres>>
  /\ UNCHANGED notMapVars

\* if (it == map_->end()) { return false; }
remove_top_Empty(t) ==
  /\ mpc[t] = "rt_test"
  /\ mit[t] = END
  /\ mres' = [mres EXCEPT ![t] = <<FALSE>>]
  /\ mpc' = [mpc EXCEPT ![t] = "ret"]
  /\ UNCHANGED <<map_, map_m_, mobj, mkey, mval, mit, okey, oval, lin, lres>>
  /\ UNCHANGED notMapVars

\* key = it->first; value = it->second;
remove_top_Copy(t) ==
  /\ mpc[t] = "rt_test"
  /\ mit[t] # END
  /\ okey' = [okey EXCEPT ![t] = mit[t]]
  /\ oval' = [oval EXCEPT ![t] =
                IF Has(map_[mobj[t]], mit[t]) THEN map_[mobj[t]][mit[t]]
                ELSE DefaultValue]
  /\ mpc' = [mpc EXCEPT ![t] = "rt_erase"]
  /\ UNCHANGED <<map_, map_m_, mobj, mkey, mval, mit, mres, lin, lres>>
  /\ UNCHANGED notMapVars

\* map_->erase(it); return true;
remove_top_Erase(t) ==
  /\ mpc[t] = "rt_erase"
  /\ map_' = [map_ EXCEPT ![mobj[t]] = Del(@, mit[t])]
  /\ mres' = [mres EXCEPT ![t] = <<TRUE>>]
  /\ mpc' = [mpc EXCEPT ![t] = "ret"]
  /\ UNCHANGED <<map_m_, mobj, mkey, mval, mit, okey, oval, lin, lres>>
  /\ UNCHANGED notMapVars

\* ==================================== atomic_maximum / atomic_minimum
\* the loop condition of a function that takes the wrong extremum
Improves_Swapped(kind, prev, new) ==
  IF kind = "max" THEN prev > new ELSE prev < new

\* prev_val < new_val (atomic_maximum), prev_val > new_val (atomic_minimum)
Improves(kind, prev, new) ==
  IF kind = "max" THEN prev < new ELSE prev > new

\* a store that does not compare
CasMatches_Always(cur, expected) == TRUE

\* compare_exchange_weak(prev_val, new_val) finds the expected value
CasMatches(cur, expected) == cur = expected

\* no thread has called yet
AtomUncalled ==
  /\ apc = [t \in AThreads |-> "call"]
  /\ aprev = [t \in AThreads |-> 0]
  /\ nspur = 0

\* Dtype prev_val = std::atomic_load(&max_val);
atomic_Load(t) ==
  /\ apc[t] = "call"
  /\ aprev' = [aprev EXCEPT ![t] = aval]
  /\ apc' = [apc EXCEPT ![t] = "loop"]
  /\ UNCHANGED <<aval, akind, ainit, anew>>
  /\ UNCHANGED notAtomVars

\* while (prev_val < new_val && ...): the comparison fails, the function returns
atomic_Return(t) ==
  /\ apc[t] = "loop"
  /\ ~Improves(akind, aprev[t], anew[t])
  /\ apc' = [apc EXCEPT ![t] = "done"]
  /\ UNCHANGED <<aval, akind, ainit, aprev, anew>>
  /\ UNCHANGED notAtomVars

\* compare_exchange_weak succeeds: new_val is stored, the loop ends
atomic_CasSuccess(t) ==
  /\ apc[t] = "loop"
  /\ Improves(akind, aprev[t], anew[t])
  /\ CasMatches(aval, aprev[t])
  /\ aval' = anew[t]
  /\ apc' = [apc EXCEPT ![t] = "done"]
  /\ UNCHANGED <<akind, ainit, aprev, anew>>
  /\ UNCHANGED notAtomVars

\* compare_exchange_weak fails: prev_val is loaded with the current value
atomic_CasFail(t) ==
  /\ apc[t] = "loop"
  /\ Improves(akind, aprev[t], anew[t])
  /\ ~CasMatches(aval, aprev[t])
  /\ aprev' = [aprev EXCEPT ![t] = aval]
  /\ UNCHANGED <<aval, akind, ainit, apc, anew>>
  /\ UNCHANGED notAtomVars

\* a loop that gives up when compare_exchange_weak fails spuriously
atomic_CasSpurious_GivesUp(t) ==
  /\ apc[t] = "loop"
  /\ Improves(akind, aprev[t], anew[t])
  /\ CasMatches(aval, aprev[t])
  /\ apc' = [apc EXCEPT ![t] = "done"]
  /\ UNCHANGED <<aval, akind, ainit, aprev, anew>>
  /\ UNCHANGED notAtomVars

\* compare_exchange_weak fails although the value is the expected one
atomic_CasSpurious(t) ==
  /\ apc[t] = "loop"
  /\ Improves(akind, aprev[t], anew[t])
  /\ CasMatches(aval, aprev[t])
  /\ aprev' = [aprev EXCEPT ![t] = aval]
  /\ UNCHANGED <<aval, akind, ainit, apc, anew>>
  /\ UNCHANGED notAtomVars

\* ================================================ Caffe: the epoch counter
\* the atomic is Caffe::epoch_count_, a std::atomic<size_t>; size_t is
\* modelled as 0..AtomVals, so (size_t)-1 is AtomVals
Sentinel == AtomVals

\* an epoch_count() that forgets the sentinel
EpochResult_Raw(count) == count

\* if (count == (size_t)-1L) count = 0UL; return count;
EpochResult(count) == IF count = Sentinel THEN 0 ELSE count

\* nothing has been reported and epoch_count() is not being called
EpochUncalled ==
  /\ reported = {}
  /\ epc = "idle"
  /\ ecount = 0

\* static void report_epoch_count(size_t rec): the call of atomic_minimum
report_epoch_count(t, rec) ==
  /\ apc[t] = "done"
  /\ akind = "min"
  /\ anew' = [anew EXCEPT ![t] = rec]
  /\ apc' = [apc EXCEPT ![t] = "call"]
  /\ reported' = reported \cup {rec}
  /\ UNCHANGED <<aval, akind, ainit, aprev, epc, ecount>>
  /\ UNCHANGED notEpochVars

\* static size_t epoch_count(): the load and the test of the sentinel
epoch_count ==
  /\ epc = "idle"
  /\ ecount' = EpochResult(aval)
  /\ epc' = "ret"
  /\ UNCHANGED <<atomVars, reported>>
  /\ UNCHANGED notEpochVars

\* the caller has the value
epoch_count_Return ==
  /\ epc = "ret"
  /\ epc' = "idle"
  /\ ecount' = 0
  /\ UNCHANGED <<atomVars, reported>>
  /\ UNCHANGED notEpochVars

\* ====================================================== Caffe: set_mode
\* static Brew mode() { return mode_; }
mode == mode_

\* no thread is inside set_mode and nothing has been counted
ModeUncalled ==
  /\ caffe_mutex_ = 0
  /\ spc = [t \in SThreads |-> "idle"]
  /\ smode = [t \in SThreads |-> "CPU"]
  /\ sold = [t \in SThreads |-> "CPU"]
  /\ salone = [t \in SThreads |-> FALSE]
  /\ sinit = [t \in SThreads |-> 0]
  /\ scalls = 0
  /\ inits = 0
  /\ transitions = 0

\* What the read of mode_ in `if (mode_ == mode)` can give.  The read is made
\* without caffe_mutex_: when another thread is in its critical section, about
\* to assign mode_, the read races with that assignment and gives the old or
\* the new value.
ModeReads(t) ==
  {mode_} \cup {smode[u] : u \in {v \in SThreads \ {t} : spc[v] = "cs"}}

\* a set_mode that never takes the early return
ModeUnchanged_Never(seen, m) == FALSE

\* mode_ == mode
ModeUnchanged(seen, m) == seen = m

\* thread t calls set_mode(m): the bookkeeping of a call
set_mode_Enter(t, m) ==
  /\ spc[t] = "idle"
  /\ scalls < MaxModeCalls
  /\ scalls' = scalls + 1
  /\ smode' = [smode EXCEPT ![t] = m]
  /\ sold' = [sold EXCEPT ![t] = mode_]
  /\ sinit' = [sinit EXCEPT ![t] = 0]
  /\ salone' = [u \in SThreads |->
                  u = t /\ \A v \in SThreads \ {t} : spc[v] = "idle"]

\* if (mode_ == mode) { return; }
set_mode_NoOp(t, m) ==
  /\ set_mode_Enter(t, m)
  /\ \E seen \in ModeReads(t) : ModeUnchanged(seen, m)
  /\ spc' = [spc EXCEPT ![t] = "ret"]
  /\ UNCHANGED <<mode_, caffe_mutex_, inits, transitions>>
  /\ UNCHANGED laneVars
  /\ UNCHANGED notModeVars

\* the test fails: the thread goes on to take caffe_mutex_
set_mode_Differs(t, m) ==
  /\ set_mode_Enter(t, m)
  /\ \E seen \in ModeReads(t) : ~ModeUnchanged(seen, m)
  /\ spc' = [spc EXCEPT ![t] = "lock"]
  /\ UNCHANGED <<mode_, caffe_mutex_, inits, transitions>>
  /\ UNCHANGED laneVars
  /\ UNCHANGED notModeVars

\* std::lock_guard<std::mutex> lock(caffe_mutex_);
set_mode_Lock(t) ==
  /\ spc[t] = "lock"
  /\ caffe_mutex_ = 0
  /\ caffe_mutex_' = t
  /\ spc' = [spc EXCEPT ![t] = "cs"]
  /\ UNCHANGED <<mode_, smode, sold, salone, sinit, scalls, inits, transitions>>
  /\ UNCHANGED laneVars
  /\ UNCHANGED notModeVars

\* mode_ = mode;
set_mode_Swap(t) ==
  /\ spc[t] = "cs"
  /\ mode_' = smode[t]
  /\ transitions' = IF mode_ # smode[t] THEN transitions + 1 ELSE transitions
  /\ spc' = [spc EXCEPT ![t] = "unlock"]
  /\ UNCHANGED <<caffe_mutex_, smode, sold, salone, sinit, scalls, inits>>
  /\ UNCHANGED laneVars
  /\ UNCHANGED notModeVars

\* } : the lock_guard goes out of scope
set_mode_Unlock(t) ==
  /\ spc[t] = "unlock"
  /\ caffe_mutex_' = 0
  /\ spc' = [spc EXCEPT ![t] = "init"]
  /\ UNCHANGED <<mode_, smode, sold, salone, sinit, scalls, inits, transitions>>
  /\ UNCHANGED laneVars
  /\ UNCHANGED notModeVars

\* void init(): "when Brew mode changes"; it invalidates the pooled lanes
\* created under the old mode
init(pool) == [g \in Groups |-> "none"]

\* Get().init();
set_mode_Init(t) ==
  /\ spc[t] = "init"
  /\ inits' = inits + 1
  /\ sinit' = [sinit EXCEPT ![t] = @ + 1]
  /\ spc' = [spc EXCEPT ![t] = "ret"]
  /\ streams_' = init(streams_)
  /\ UNCHANGED <<mode_, caffe_mutex_, smode, sold, salone, scalls, transitions>>
  /\ UNCHANGED <<pstream_mutex_, lpc, lgroup, lget>>
  /\ UNCHANGED notModeVars

\* set_mode returns
set_mode_Return(t) ==
  /\ spc[t] = "ret"
  /\ spc' = [spc EXCEPT ![t] = "idle"]
  /\ salone' = [salone EXCEPT ![t] = FALSE]
  /\ sinit' = [sinit EXCEPT ![t] = 0]
  /\ UNCHANGED <<mode_, caffe_mutex_, smode, sold, scalls, inits, transitions>>
  /\ UNCHANGED laneVars
  /\ UNCHANGED notModeVars

\* ================================================== Caffe: pstream(group)
\* no lane has been created and no thread is asking for one
LanesUncreated ==
  /\ streams_ = [g \in Groups |-> "none"]
  /\ pstream_mutex_ = 0
  /\ lpc = [t \in LThreads |-> "idle"]
  /\ lgroup = [t \in LThreads |-> 0]
  /\ lget = [t \in LThreads |-> "none"]

\* shared_ptr<CudaStream> pstream(int group): the dedicated mutex is taken
pstream_Lock(t, g) ==
  /\ lpc[t] = "idle"
  /\ pstream_mutex_ = 0
  /\ pstream_mutex_' = t
  /\ lgroup' = [lgroup EXCEPT ![t] = g]
  /\ lpc' = [lpc EXCEPT ![t] = "cs"]
  /\ UNCHANGED <<streams_, lget>>
  /\ UNCHANGED modeVars
  /\ UNCHANGED notModeVars

\* the group has no lane: one is created, under the mode in force
pstream_Create(t) ==
  /\ lpc[t] = "cs"
  /\ streams_[lgroup[t]] = "none"
  /\ streams_' = [streams_ EXCEPT ![lgroup[t]] = mode_]
  /\ lget' = [lget EXCEPT ![t] = mode_]
  /\ lpc' = [lpc EXCEPT ![t] = "ret"]
  /\ UNCHANGED <<pstream_mutex_, lgroup>>
  /\ UNCHANGED modeVars
  /\ UNCHANGED notModeVars

\* the group has a pooled lane: it is the one returned
pstream_Pooled(t) ==
  /\ lpc[t] = "cs"
  /\ streams_[lgroup[t]] # "none"
  /\ lget' = [lget EXCEPT ![t] = streams_[lgroup[t]]]
  /\ lpc' = [lpc EXCEPT ![t] = "ret"]
  /\ UNCHANGED <<streams_, pstream_mutex_, lgroup>>
  /\ UNCHANGED modeVars
  /\ UNCHANGED notModeVars

\* pstream returns and the mutex is released
pstream_Return(t) ==
  /\ lpc[t] = "ret"
  /\ pstream_mutex_' = 0
  /\ lpc' = [lpc EXCEPT ![t] = "idle"]
  /\ lget' = [lget EXCEPT ![t] = "none"]
  /\ UNCHANGED <<streams_, lgroup>>
  /\ UNCHANGED modeVars
  /\ UNCHANGED notModeVars

\* ====================================================== Caffe: set_gpus
\* static const std::vector<int>& gpus() { return gpus_; }
gpus == gpus_

\* static int root_device() { return root_device_; }
root_device == root_device_

\* static int device_in_use_per_host_count() { return (int)gpus_.size(); }
device_in_use_per_host_count == Len(gpus_)

\* no thread is inside set_gpus and none has been
GpusUncalled ==
  /\ gpc = [t \in GThreads |-> "idle"]
  /\ garg = [t \in GThreads |-> <<>>]
  /\ gset = FALSE

\* a set_gpus that substitutes nothing
push_back_Nothing(list, x) == list

\* gpus_.push_back(root_device_)
push_back(list, x) == Append(list, x)

\* std::lock_guard<std::mutex> lock(caffe_mutex_);
set_gpus_Lock(t, list) ==
  /\ gpc[t] = "idle"
  /\ caffe_mutex_ = 0
  /\ caffe_mutex_' = t
  /\ garg' = [garg EXCEPT ![t] = list]
  /\ gpc' = [gpc EXCEPT ![t] = "assign"]
  /\ UNCHANGED <<gpus_, root_device_, gset>>
  /\ UNCHANGED notGpuVars

\* gpus_ = gpus;
set_gpus_Assign(t) ==
  /\ gpc[t] = "assign"
  /\ gpus_' = garg[t]
  /\ gpc' = [gpc EXCEPT ![t] = "test"]
  /\ UNCHANGED <<caffe_mutex_, root_device_, garg, gset>>
  /\ UNCHANGED notGpuVars

\* if (gpus_.empty()) { gpus_.push_back(root_device_); }
set_gpus_Substitute(t) ==
  /\ gpc[t] = "test"
  /\ gpus_ = <<>>
  /\ gpus_' = push_back(gpus_, root_device_)
  /\ gpc' = [gpc EXCEPT ![t] = "ret"]
  /\ UNCHANGED <<caffe_mutex_, root_device_, garg, gset>>
  /\ UNCHANGED notGpuVars

\* the list is not empty: it is kept
set_gpus_Keep(t) ==
  /\ gpc[t] = "test"
  /\ gpus_ # <<>>
  /\ gpc' = [gpc EXCEPT ![t] = "ret"]
  /\ UNCHANGED <<gpus_, caffe_mutex_, root_device_, garg, gset>>
  /\ UNCHANGED notGpuVars

\* set_gpus returns and the mutex is released
set_gpus_Return(t) ==
  /\ gpc[t] = "ret"
  /\ caffe_mutex_' = 0
  /\ gpc' = [gpc EXCEPT ![t] = "idle"]
  /\ garg' = [garg EXCEPT ![t] = <<>>]
  /\ gset' = TRUE
  /\ UNCHANGED <<gpus_, root_device_>>
  /\ UNCHANGED notGpuVars

\* ========================================================= specifications
\* set_gpus when a specification is about something else
\* ------------------------------------------- Caffe: readers of the device set
\* no thread has called gpus() or device_in_use_per_host_count()
ReadersUncalled ==
  /\ rpc = [r \in Readers |-> "idle"]
  /\ rlist = [r \in Readers |-> <<>>]
  /\ rcount = [r \in Readers |-> 0]

\* what a read of gpus_ made without caffe_mutex_ can find: the vector as it
\* is stored, or, when it races with a statement of set_gpus that is writing
\* the vector, the vector that statement leaves
GpusReads ==
  {gpus_}
    \cup {garg[t] : t \in {u \in GThreads : gpc[u] = "assign"}}
    \cup {push_back(gpus_, root_device_) :
            t \in {u \in GThreads : gpc[u] = "test" /\ gpus_ = <<>>}}

\* static const std::vector<int>& gpus() { return gpus_; } and the caller's
\* read of the vector it refers to
gpus_Call(r) ==
  /\ rpc[r] = "idle"
  /\ \E seen \in GpusReads : rlist' = [rlist EXCEPT ![r] = seen]
  /\ rpc' = [rpc EXCEPT ![r] = "gpus"]
  /\ UNCHANGED rcount
  /\ UNCHANGED notReadVars

\* static int device_in_use_per_host_count() { return (int)gpus_.size(); }
device_in_use_per_host_count_Call(r) ==
  /\ rpc[r] = "idle"
  /\ \E seen \in GpusReads : rcount' = [rcount EXCEPT ![r] = Len(seen)]
  /\ rpc' = [rpc EXCEPT ![r] = "count"]
  /\ UNCHANGED rlist
  /\ UNCHANGED notReadVars

\* the reader has used what it read
reader_Done(r) ==
  /\ rpc[r] # "idle"
  /\ rpc' = [rpc EXCEPT ![r] = "idle"]
  /\ rlist' = [rlist EXCEPT ![r] = <<>>]
  /\ rcount' = [rcount EXCEPT ![r] = 0]
  /\ UNCHANGED notReadVars

GpusUnused ==
  GpusUncalled /\ gpus_ = <<>> /\ root_device_ = 0 /\ ReadersUncalled

\* set_mode when a specification is about something else
ModeUnused == ModeUncalled /\ mode_ = "CPU" /\ LanesUncreated /\ GpusUnused

\* the atomic when a specification is about something else
AtomIdle ==
  /\ AtomUncalled
  /\ aval = 0 /\ ainit = 0 /\ akind = "min"
  /\ anew = [t \in AThreads |-> 0]
  /\ EpochUncalled

\* the atomic and the Caffe statics when a specification is about neither
AtomUnused == AtomIdle /\ ModeUnused

\* a thread enters a method
FlagCall(t) ==
  \/ set_Lock(t)
  \/ reset_Lock(t)
  \/ disarm_Lock(t)
  \/ wait_Lock(t)
  \/ wait_reset_Lock(t)

\* a thread that is inside a method goes on
FlagStep(t) ==
  \/ set_Body(t)
  \/ reset_Body(t)
  \/ set_reset_Notify(t)
  \/ disarm_Body(t)
  \/ disarm_Notify(t)
  \/ wait_Return(t)
  \/ wait_Block(t)
  \/ wait_Relock(t)
  \/ wait_reset_Consume(t)
  \/ wait_reset_Block(t)
  \/ wait_reset_Relock(t)
  \/ wait_reset_Notify(t)

FlagNext ==
  /\ \E t \in FThreads : FlagCall(t) \/ FlagStep(t) \/ cv_SpuriousWake(t)
  /\ UNCHANGED flagHistory

\* A thread inside a method is scheduled again and again, and a thread that
\* wants the mutex gets it if the mutex keeps becoming free.  Entering a
\* method is the caller's choice and a spurious wake-up is never promised.
FlagInit ==
  FlagConstructed /\ FlagUncounted /\ flag0 = FALSE /\ MapConstructed /\ MapIdle /\ NoMapHistory /\ AtomUnused

\* ---- the maps, every method, MapThreads threads
FlagUnused ==
  FlagConstructed /\ flag_ = FALSE /\ FlagUncounted /\ flag0 = FALSE

MapInit ==
  FlagUnused /\ MapConstructed /\ MapIdle /\ NoMapHistory /\ AtomUnused

MapNext ==
  \E t \in MThreads :
    \/ \E o \in Maps : size_Call(t, o) /\ UNCHANGED mapHistory
    \/ \E o \in Maps, k \in Keys, v \in Vals :
         insert_Call(t, o, k, v) /\ UNCHANGED mapHistory
    \/ \E o \in Maps, k \in Keys : index_Call(t, o, k) /\ UNCHANGED mapHistory
    \/ \E o \in Maps, k \in Keys : find_Call(t, o, k) /\ UNCHANGED mapHistory
    \/ \E o \in Maps : clear_Call(t, o) /\ UNCHANGED mapHistory
    \/ \E o \in Maps, k \in Keys : erase_Call(t, o, k) /\ UNCHANGED mapHistory
    \/ \E o \in Maps, k \in Keys, v \in Vals :
         insert_max_Lock(t, o, k, v) /\ UNCHANGED mapHistory
    \/ insert_max_Find(t) /\ UNCHANGED mapHistory
    \/ insert_max_Emplace(t) /\ UNCHANGED mapHistory
    \/ insert_max_Raise(t) /\ UNCHANGED mapHistory
    \/ insert_max_Keep(t) /\ UNCHANGED mapHistory
    \/ \E o \in Maps : remove_top_Lock(t, o) /\ UNCHANGED mapHistory
    \/ remove_top_Begin(t) /\ UNCHANGED mapHistory
    \/ remove_top_Empty(t) /\ UNCHANGED mapHistory
    \/ remove_top_Copy(t) /\ UNCHANGED mapHistory
    \/ remove_top_Erase(t) /\ UNCHANGED mapHistory
    \/ MapReturn(t) /\ UNCHANGED mapHistory

MapSpec == MapInit /\ [][MapNext]_vars

\* ---- threads that only call insert_max on one map, from its construction
InsertMaxNext ==
  \E t \in MThreads :
    \/ \E k \in Keys, v \in IVals :
         /\ insert_max_Lock(t, 1, k, v)
         /\ offered' = offered \cup {<<k, v>>}
         /\ UNCHANGED <<map0, popped, empties, ins, rem>>
    \/ insert_max_Find(t) /\ UNCHANGED mapHistory
    \/ insert_max_Emplace(t) /\ UNCHANGED mapHistory
    \/ insert_max_Raise(t) /\ UNCHANGED mapHistory
    \/ insert_max_Keep(t) /\ UNCHANGED mapHistory
    \/ MapReturn(t) /\ UNCHANGED mapHistory

InsertMaxSpec == MapInit /\ [][InsertMaxNext]_vars

\* ---- one thread that calls remove_top again and again on a map that holds
\* any entries with keys in DKeys
AllMaps == UNION {[S -> Vals] : S \in SUBSET DKeys}

DrainInit ==
  /\ FlagUnused
  /\ AtomUnused
  /\ MapIdle
  /\ \E m \in AllMaps :
       /\ map_ = [o \in Maps |-> IF o = 1 THEN m ELSE EmptyMap]
       /\ map0 = m
  /\ lin = map_
  /\ offered = {}
  /\ popped = <<>>
  /\ empties = 0
  /\ ins = [k \in Keys |-> 0]
  /\ rem = [k \in Keys |-> 0]

DrainNext ==
  \/ /\ empties < MaxEmptyCalls
     /\ remove_top_Lock(1, 1)
     /\ UNCHANGED mapHistory
  \/ remove_top_Begin(1) /\ UNCHANGED mapHistory
  \/ remove_top_Empty(1) /\ UNCHANGED mapHistory
  \/ remove_top_Copy(1) /\ UNCHANGED mapHistory
  \/ remove_top_Erase(1) /\ UNCHANGED mapHistory
  \/ /\ MapReturn(1)
     /\ popped' = IF mres[1] = <<TRUE>>
                   THEN Append(popped, <<okey[1], oval[1]>>) ELSE popped
     /\ empties' = IF mres[1] = <<FALSE>> THEN empties + 1 ELSE empties
     /\ UNCHANGED <<offered, map0, ins, rem>>

DrainSpec == DrainInit /\ [][DrainNext]_vars

\* ---- threads that call insert, insert_max, erase and remove_top on one
\* map, with the entries created and the entries remove_top returns counted
\* per key; at most MaxInserts entries are created for a key
Created ==
  ins' = [k \in Keys |->
            IF ~Has(map_[1], k) /\ Has(map_'[1], k) THEN ins[k] + 1 ELSE ins[k]]

TopNext ==
  \E t \in MThreads :
    \/ \E k \in Keys, v \in Vals :
         /\ ins[k] < MaxInserts
         /\ insert_Call(t, 1, k, v)
         /\ Created
         /\ UNCHANGED <<offered, map0, popped, empties, rem>>
    \/ \E k \in Keys : erase_Call(t, 1, k) /\ UNCHANGED mapHistory
    \/ \E k \in Keys, v \in Vals :
         /\ ins[k] < MaxInserts
         /\ insert_max_Lock(t, 1, k, v)
         /\ UNCHANGED mapHistory
    \/ insert_max_Find(t) /\ UNCHANGED mapHistory
    \/ /\ insert_max_Emplace(t)
       /\ Created
       /\ UNCHANGED <<offered, map0, popped, empties, rem>>
    \/ insert_max_Raise(t) /\ UNCHANGED mapHistory
    \/ insert_max_Keep(t) /\ UNCHANGED mapHistory
    \/ remove_top_Lock(t, 1) /\ UNCHANGED mapHistory
    \/ remove_top_Begin(t) /\ UNCHANGED mapHistory
    \/ remove_top_Empty(t) /\ UNCHANGED mapHistory
    \/ remove_top_Copy(t) /\ UNCHANGED mapHistory
    \/ /\ remove_top_Erase(t)
       /\ rem' = [rem EXCEPT ![okey[t]] = @ + 1]
       /\ UNCHANGED <<offered, map0, popped, empties, ins>>
    \/ MapReturn(t) /\ UNCHANGED mapHistory

TopSpec == MapInit /\ [][TopNext]_vars

\* ---- AtomThreads threads that each call atomic_minimum once, or each
\* atomic_maximum once, on one atomic that holds any value
AtomInit ==
  /\ FlagUnused /\ MapConstructed /\ MapIdle /\ NoMapHistory
  /\ AtomUncalled
  /\ EpochUncalled
  /\ ModeUnused
  /\ akind \in {"min", "max"}
  /\ aval \in AVals
  /\ ainit = aval
  /\ anew \in [AThreads -> AVals]

AtomNext ==
  /\ \E t \in AThreads :
       \/ atomic_Load(t)
       \/ atomic_Return(t)
       \/ atomic_CasSuccess(t)
       \/ atomic_CasFail(t)
       \/ atomic_CasSpurious(t)
  /\ UNCHANGED atomHistory

AtomSpec == AtomInit /\ [][AtomNext]_vars

\* ---- the same calls with the spurious failures counted; a thread that is
\* not starved of the processor and whose compare_exchange_weak does not
\* fail spuriously for ever takes a step of its call other than a spurious
\* failure
RetryStep(t) ==
  /\ \/ atomic_Load(t)
     \/ atomic_Return(t)
     \/ atomic_CasSuccess(t)
     \/ atomic_CasFail(t)
  /\ UNCHANGED atomHistory

SpuriousStep(t) ==
  /\ atomic_CasSpurious(t)
  /\ nspur' = IF nspur < MaxSpurious THEN nspur + 1 ELSE nspur

\* RetryThreads threads call, each once, on an atomic that holds any value;
\* the other threads make no call
RetryInit ==
  /\ FlagUnused /\ MapConstructed /\ MapIdle /\ NoMapHistory
  /\ EpochUncalled
  /\ ModeUnused
  /\ akind \in {"min", "max"}
  /\ aval \in AVals
  /\ ainit = aval
  /\ apc = [t \in AThreads |-> IF t \in RThreads THEN "call" ELSE "done"]
  /\ aprev = [t \in AThreads |-> 0]
  /\ \E c \in [RThreads -> AVals] :
       anew = [t \in AThreads |-> IF t \in RThreads THEN c[t] ELSE aval]
  /\ nspur = 0

RetryNext == \E t \in RThreads : RetryStep(t) \/ SpuriousStep(t)

RetrySpec ==
  /\ RetryInit
  /\ [][RetryNext]_vars
  /\ \A t \in RThreads : WF_vars(RetryStep(t))

\* ---- the epoch counter: it starts at the sentinel, EpochThreads threads
\* report values again and again and one thread reads the counter
EpochInit ==
  /\ FlagUnused /\ MapConstructed /\ MapIdle /\ NoMapHistory
  /\ EpochUncalled
  /\ ModeUnused
  /\ akind = "min"
  /\ aval = Sentinel
  /\ ainit = Sentinel
  /\ apc = [t \in AThreads |-> "done"]
  /\ aprev = [t \in AThreads |-> 0]
  /\ anew = [t \in AThreads |-> 0]
  /\ nspur = 0

EpochNext ==
  \/ \E t \in EThreads :
       \/ \E rec \in AVals : report_epoch_count(t, rec)
       \/ atomic_Load(t) /\ UNCHANGED atomHistory
       \/ atomic_Return(t) /\ UNCHANGED atomHistory
       \/ atomic_CasSuccess(t) /\ UNCHANGED atomHistory
       \/ atomic_CasFail(t) /\ UNCHANGED atomHistory
       \/ atomic_CasSpurious(t) /\ UNCHANGED atomHistory
  \/ epoch_count
  \/ epoch_count_Return

EpochSpec == EpochInit /\ [][EpochNext]_vars

\* ---- ModeThreads threads that call set_mode, MaxModeCalls times in all,
\* from either mode
ModeInit ==
  /\ FlagUnused /\ MapConstructed /\ MapIdle /\ NoMapHistory /\ AtomIdle
  /\ ModeUncalled
  /\ mode_ \in Brew
  /\ LanesUncreated
  /\ GpusUnused

ModeNext ==
  \E t \in SThreads :
    \/ \E m \in Brew : set_mode_NoOp(t, m)
    \/ \E m \in Brew : set_mode_Differs(t, m)
    \/ set_mode_Lock(t)
    \/ set_mode_Swap(t)
    \/ set_mode_Unlock(t)
    \/ set_mode_Init(t)
    \/ set_mode_Return(t)

ModeSpec == ModeInit /\ [][ModeNext]_vars

\* ---- threads that call set_mode while LaneThreads threads ask for lanes
LaneNext ==
  \/ ModeNext
  \/ \E t \in LThreads :
       \/ \E g \in Groups : pstream_Lock(t, g)
       \/ pstream_Create(t)
       \/ pstream_Pooled(t)
       \/ pstream_Return(t)

LaneSpec == ModeInit /\ [][LaneNext]_vars

\* ---- GpuThreads threads that call set_gpus with any list of at most
\* MaxGpus devices, from any device set and any root device
GpuInit ==
  /\ FlagUnused /\ MapConstructed /\ MapIdle /\ NoMapHistory /\ AtomIdle
  /\ ModeUncalled /\ mode_ = "CPU" /\ LanesUncreated
  /\ GpusUncalled
  /\ ReadersUncalled
  /\ gpus_ \in GpuLists
  /\ root_device_ \in Devices

GpuNext ==
  \E t \in GThreads :
    \/ \E list \in GpuLists : set_gpus_Lock(t, list)
    \/ set_gpus_Assign(t)
    \/ set_gpus_Substitute(t)
    \/ set_gpus_Keep(t)
    \/ set_gpus_Return(t)

GpuSpec == GpuInit /\ [][GpuNext]_vars

\* ---- the device set has been made non-empty; GpuThreads threads call
\* set_gpus and ReadThreads threads read the device set meanwhile
ReadInit ==
  /\ GpuInit
  /\ gpus_ # <<>>

ReadNext ==
  \/ GpuNext
  \/ \E r \in Readers :
       \/ gpus_Call(r)
       \/ device_in_use_per_host_count_Call(r)
       \/ reader_Done(r)

ReadSpec == ReadInit /\ [][ReadNext]_vars

FlagSpec ==
  /\ FlagInit
  /\ [][FlagNext]_vars
  /\ \A t \in FThreads : SF_vars(FlagStep(t) /\ UNCHANGED flagHistory)

\* ---- an armed Flag with its set() and wait_reset() calls counted: threads
\* call set (MaxSets times in all), reset and wait_reset, never disarm
ConsumeCall(t) ==
  \/ nset < MaxSets /\ set_Lock(t) /\ UNCHANGED flagHistory
  \/ reset_Lock(t) /\ hreset' = TRUE /\ UNCHANGED <<flag0, nset, nwr, nwait>>
  \/ wait_reset_Lock(t) /\ UNCHANGED flagHistory

ConsumeStep(t) ==
  \/ set_Body(t) /\ nset' = nset + 1 /\ UNCHANGED <<flag0, nwr, hreset, nwait>>
  \/ reset_Body(t) /\ UNCHANGED flagHistory
  \/ set_reset_Notify(t) /\ UNCHANGED flagHistory
  \/ /\ wait_reset_Consume(t)
     /\ nwr' = IF disarmed_ THEN nwr ELSE nwr + 1
     /\ UNCHANGED <<flag0, nset, hreset, nwait>>
  \/ wait_reset_Block(t) /\ UNCHANGED flagHistory
  \/ wait_reset_Relock(t) /\ UNCHANGED flagHistory
  \/ wait_reset_Notify(t) /\ UNCHANGED flagHistory

ConsumeNext ==
  \E t \in FThreads :
    \/ ConsumeCall(t)
    \/ ConsumeStep(t)
    \/ cv_SpuriousWake(t) /\ UNCHANGED flagHistory

\* ---- the Flag with its set() calls and wait() returns counted: threads
\* call set (MaxSets times in all), reset, disarm and wait (until MaxWaits
\* calls have returned)
WaitNext ==
  \E t \in FThreads :
    \/ nset < MaxSets /\ set_Lock(t) /\ UNCHANGED flagHistory
    \/ set_Body(t) /\ nset' = nset + 1 /\ UNCHANGED <<flag0, nwr, hreset, nwait>>
    \/ reset_Lock(t) /\ UNCHANGED flagHistory
    \/ reset_Body(t) /\ UNCHANGED flagHistory
    \/ set_reset_Notify(t) /\ UNCHANGED flagHistory
    \/ disarm_Lock(t) /\ UNCHANGED flagHistory
    \/ disarm_Body(t) /\ UNCHANGED flagHistory
    \/ disarm_Notify(t) /\ UNCHANGED flagHistory
    \/ nwait < MaxWaits /\ wait_Lock(t) /\ UNCHANGED flagHistory
    \/ wait_Return(t) /\ nwait' = nwait + 1 /\ UNCHANGED <<flag0, nset, nwr, hreset>>
    \/ wait_Block(t) /\ UNCHANGED flagHistory
    \/ wait_Relock(t) /\ UNCHANGED flagHistory
    \/ cv_SpuriousWake(t) /\ UNCHANGED flagHistory

WaitSpec == FlagInit /\ [][WaitNext]_vars

ConsumeInit ==
  /\ FlagConstructed /\ FlagUncounted /\ flag0 = flag_
  /\ MapConstructed /\ MapIdle /\ NoMapHistory /\ AtomUnused

ConsumeSpec ==
  /\ ConsumeInit
  /\ [][ConsumeNext]_vars
  /\ \A t \in FThreads : SF_vars(ConsumeStep(t))

\* ============================================================ Flag claims

\* thread t is inside wait_reset() and has not yet passed its predicate
InWaitReset(t) == fpc[t] \in {"wr_pred", "wr_blocked", "wr_relock"}

\* thread t is inside wait() and has not yet passed its predicate
InWait(t) == fpc[t] \in {"wait_pred", "wait_blocked", "wait_relock"}

\* thread t passes the predicate of wait_reset() in this step
WaitResetPasses(t) == fpc[t] = "wr_pred" /\ fpc'[t] = "wr_notify"

\* thread t passes the predicate of wait() in this step
WaitPasses(t) == fpc[t] = "wait_pred" /\ fpc'[t] = "idle"

\* wait_reset() of an armed flag leaves the flag clear when it unlocks
ConsumeLeavesClear ==
  [][\A t \in FThreads : (WaitResetPasses(t) /\ ~disarmed_) => ~flag_']_vars

\* C1 as stated: on an armed flag, EVERY thread parked in wait_reset() at the
\* moment another thread executes set() is eventually released, and the flag
\* is clear when the released thread leaves its critical section.
C1_Original ==
  /\ \A t \in FThreads :
       (fpc[t] = "wr_blocked" /\ ~disarmed_
          /\ \E u \in FThreads : fpc[u] = "set_cs")
       ~> (fpc[t] = "wr_notify" \/ disarmed_)
  /\ ConsumeLeavesClear

\* C1 amended: on an armed flag, a thread waiting in wait_reset() while the
\* flag is set is eventually released unless the set state is cleared first
\* (by reset() or by another wait_reset() that consumed it); the released
\* thread leaves the flag clear when it unlocks.
C1_Amended ==
  /\ \A t \in FThreads :
       (InWaitReset(t) /\ flag_ /\ ~disarmed_)
       ~> (fpc[t] = "wr_notify" \/ ~flag_ \/ disarmed_)
  /\ ConsumeLeavesClear

\* a thread that had parked in wait_reset() was released by a set() and has
\* consumed the set state of an armed flag
C1_Witness ==
  \E t \in FThreads :
    /\ fpc[t] = "wr_notify" /\ fblk[t]
    /\ ~flag_ /\ ~disarmed_

\* ---------------------------------------------------------------------- C2
\* thread t executes the critical section of disarm() in this step
DisarmActs(t) == fpc[t] = "disarm_cs" /\ fpc'[t] = "disarm_notify"

C3_DisarmReleasesWaitReset ==
  /\ \A t \in FThreads :
       (fpc[t] = "wr_blocked" /\ ~flag_
          /\ \E u \in FThreads : fpc[u] = "disarm_cs")
       ~> (fpc[t] = "wr_notify")
  /\ [][\A t \in FThreads :
          (disarmed_ /\ fpc[t] = "wr_pred") => fpc'[t] # "wr_blocked"]_vars
  /\ [][\A t \in FThreads : DisarmActs(t) => flag_' = flag_]_vars
  /\ [][\A t \in FThreads :
          (WaitResetPasses(t) /\ disarmed_) => flag_' = flag_]_vars

\* a thread that had parked in wait_reset() on a clear flag was released by
\* disarm() and the state is still clear
C3_Witness ==
  \E t \in FThreads :
    /\ fpc[t] = "wr_notify" /\ fblk[t] /\ fseen[t] = "clear"
    /\ disarmed_ /\ ~is_set

\* ---------------------------------------------------------------------- C4
\* C4 as stated: a wait_reset() that passes with the state set clears it, also
\* on a disarmed flag; one that passes with the state clear alters nothing.
C4_Original ==
  [][\A t \in FThreads :
       /\ (WaitResetPasses(t) /\ flag_) => ~flag_'
       /\ (WaitResetPasses(t) /\ ~flag_) => UNCHANGED <<flag_, disarmed_>>]_vars

\* C4 amended: a wait_reset() that passes clears the state exactly when the
\* flag is armed; on a disarmed flag it alters nothing, whether the state is
\* set or clear.  It never changes disarmed_.
C4_Amended ==
  [][\A t \in FThreads :
       WaitResetPasses(t) =>
         /\ flag_ \/ disarmed_
         /\ flag_' = (flag_ /\ disarmed_)
         /\ disarmed_' = disarmed_]_vars

\* a wait_reset() has passed with the state set on a disarmed flag
C4_Witness ==
  \E t \in FThreads :
    fpc[t] = "wr_notify" /\ fseen[t] = "set" /\ disarmed_

\* ---------------------------------------------------------------------- C5
\* C5: once disarmed_ holds it holds in every later state, and a disarm() of
\* a disarmed flag changes neither flag_ nor disarmed_.
C5_DisarmLatches ==
  /\ [][disarmed_ => disarmed_']_vars
  /\ [][\A t \in FThreads :
          (DisarmActs(t) /\ disarmed_) => UNCHANGED <<flag_, disarmed_>>]_vars

\* two disarm() calls have both executed their critical section
C5_Witness ==
  \E t, u \in FThreads :
    /\ t # u
    /\ fpc[t] = "disarm_notify" /\ fpc[u] = "disarm_notify"
    /\ disarmed_

\* ---------------------------------------------------------------------- C6
\* thread t is inside wait() or wait_reset() and has not passed its predicate
Waiting(t) == InWait(t) \/ InWaitReset(t)

\* the predicate thread t is waiting for
Awaited(t) ==
  IF InWait(t) THEN WaitPredicate(flag_, disarmed_)
  ELSE WaitResetPredicate(flag_, disarmed_)

\* a parked thread whose predicate holds has a notify_all coming
NoLostWakeup ==
  \A t \in cv_ :
    Awaited(t) =>
      \E u \in FThreads :
        fpc[u] \in {"notify", "disarm_notify", "wr_notify"}

Quiescent == \A t \in MThreads : mpc[t] = "idle"

OfferedKeys == {p[1] : p \in offered}

OfferedFor(k) == {p[2] : p \in {q \in offered : q[1] = k}}

\* C7: when every insert_max call made so far has returned, the keys of the
\* map are the keys offered and each holds the largest value offered for it.
C7_InsertMaxKeepsMaximum ==
  Quiescent =>
    /\ DOMAIN map_[1] = OfferedKeys
    /\ \A k \in DOMAIN map_[1] :
         /\ map_[1][k] \in OfferedFor(k)
         /\ \A v \in OfferedFor(k) : v <= map_[1][k]

\* every value has been offered for one key and two for another, and all
\* calls have returned
C7_Witness ==
  /\ Quiescent
  /\ \E k, j \in Keys :
       /\ k # j
       /\ OfferedFor(k) = IVals
       /\ Cardinality(OfferedFor(j)) >= 2

\* ---------------------------------------------------------------------- C8
\* C8: the entries a drain gets are entries of the map it started from, each
\* with its stored value, in increasing key order; remove_top returns true
\* only while entries remain and false only when all have been returned, so
\* true exactly n times; a call that returns false finds and leaves the map
\* empty and has not written to the caller's key and value.
C8_DrainInKeyOrder ==
  /\ \A i \in 1..Len(popped) :
       /\ popped[i][1] \in DOMAIN map0
       /\ popped[i][2] = map0[popped[i][1]]
  /\ \A i, j \in 1..Len(popped) : i < j => popped[i][1] < popped[j][1]
  /\ (mpc[1] = "ret" /\ mres[1] = <<TRUE>>) =>
       Len(popped) < Cardinality(DOMAIN map0)
  /\ (mpc[1] = "ret" /\ mres[1] = <<FALSE>>) =>
       /\ Len(popped) = Cardinality(DOMAIN map0)
       /\ map_[1] = EmptyMap
       /\ okey[1] = END /\ oval[1] = DefaultValue
  /\ empties > 0 =>
       /\ Len(popped) = Cardinality(DOMAIN map0)
       /\ map_[1] = EmptyMap

\* a map of three entries has been drained and two more calls reported empty
C8_Witness ==
  /\ Len(popped) = 3
  /\ empties = 2

\* ---------------------------------------------------------------------- C9
\* C9: a thread that is inside a method of either map holds the shared mutex,
\* so at most one method is in progress; whenever the mutex is free the maps
\* are what the calls made so far give when applied one at a time in the
\* order in which they took the mutex; and a method returns what it returns
\* in that order.
C9_OneCriticalSection ==
  /\ \A t \in MThreads : mpc[t] # "idle" => map_m_ = t
  /\ map_m_ = 0 => map_ = lin
  /\ \A t \in MThreads :
       mpc[t] = "ret" =>
         /\ map_ = lin
         /\ <<mres[t], okey[t], oval[t]>> = lres[t]

\* a remove_top of the second map returns an entry while the first map,
\* which shares the mutex, holds entries too
C9_Witness ==
  \E t \in MThreads :
    /\ mpc[t] = "ret" /\ mobj[t] = 2
    /\ okey[t] # END
    /\ DOMAIN map_[1] # {}

\* ============================== atomic_maximum / atomic_minimum claims

\* ---------------------------------------------------------------------- C10
AllDone == \A t \in AThreads : apc[t] = "done"

Proposed == {anew[t] : t \in AThreads}

\* C10: when all the calls have returned and the atomic started no smaller
\* (atomic_minimum) / no larger (atomic_maximum) than every proposal, it
\* holds the smallest / the largest proposal.
C10_ConvergesToExtremum ==
  AllDone =>
    /\ (akind = "min" /\ \A v \in Proposed : ainit >= v) =>
         (aval \in Proposed /\ \A v \in Proposed : aval <= v)
    /\ (akind = "max" /\ \A v \in Proposed : ainit <= v) =>
         (aval \in Proposed /\ \A v \in Proposed : aval >= v)

\* three threads have proposed three different values to atomic_minimum, the
\* atomic started at the largest of them, and all have returned
C10_Witness ==
  /\ AllDone
  /\ akind = "min"
  /\ Cardinality(Proposed) = 3
  /\ \A v \in Proposed : ainit >= v
  /\ aval < ainit

\* ============================================================ Caffe claims

\* ---------------------------------------------------------------------- C11
\* no report_epoch_count call is in progress
ReportsCompleted == \A t \in AThreads : apc[t] = "done"

\* epoch_count() is called now, when every report made so far has completed
QuietEpochRead == epc = "idle" /\ epc' = "ret" /\ ReportsCompleted

MinReported == CHOOSE v \in reported : \A w \in reported : v <= w

\* C11 as stated: an epoch_count() called when no report has been made returns
\* 0, and called when the reports made so far have completed it returns the
\* smallest value reported; it never returns the sentinel.
C11_Original ==
  [][QuietEpochRead =>
       /\ ecount' = IF reported = {} THEN 0 ELSE MinReported
       /\ ecount' # Sentinel]_vars

\* C11 amended: as above when a value other than (size_t)-1 has been
\* reported; when nothing, or nothing but (size_t)-1, has been reported
\* epoch_count() returns 0.  It never returns the sentinel.
C11_Amended ==
  /\ [][QuietEpochRead =>
          ecount' = IF reported \subseteq {Sentinel} THEN 0 ELSE MinReported]_vars
  /\ [](epc = "ret" => ecount # Sentinel)

\* epoch_count() has returned the smaller of two reported values, one of
\* them (size_t)-1, after the reports had completed
C11_Witness ==
  /\ epc = "ret"
  /\ ReportsCompleted
  /\ Sentinel \in reported
  /\ Cardinality(reported) >= 2
  /\ ecount = MinReported
  /\ ecount > 0

\* ---------------------------------------------------------------------- C12
\* thread t calls set_mode(m) now, while no other thread is inside set_mode
CallsAlone(t) == spc[t] = "idle" /\ spc'[t] # "idle" /\ salone'[t]

\* C12: a set_mode(m) called when mode() = m returns at once: mode_, the
\* mutex and the count of init() stay as they are.  A call that no other
\* set_mode call overlaps leaves mode() = m, and has invoked init() once
\* when the mode was different and never when it was the same.
C12_SetModeNoOpWhenUnchanged ==
  /\ [][\A t \in SThreads :
          (CallsAlone(t) /\ mode = smode'[t]) =>
            /\ spc'[t] = "ret"
            /\ UNCHANGED <<mode_, caffe_mutex_, inits>>]_vars
  /\ [](\A t \in SThreads :
          (spc[t] = "ret" /\ salone[t]) =>
            /\ mode = smode[t]
            /\ sinit[t] = IF sold[t] = smode[t] THEN 0 ELSE 1)

\* a thread has changed the mode with init() invoked once, then called
\* set_mode with the same mode again and returned with no further init()
C12_Witness ==
  \E t \in SThreads :
    /\ spc[t] = "ret" /\ salone[t]
    /\ sold[t] = smode[t]
    /\ sinit[t] = 0
    /\ inits = 1 /\ transitions = 1 /\ scalls = 2

\* ---------------------------------------------------------------------- C13
\* C13 as stated: the lane a request returns was created under the mode that
\* is in force when it is returned.
C13_Original ==
  [][\A t \in LThreads :
       (lpc[t] = "cs" /\ lpc'[t] = "ret") => lget'[t] = mode']_vars

\* ---------------------------------------------------------------------- C14
\* C14: when set_gpus(L) returns, gpus() is L if L is not empty and is
\* [root_device()] if it is; and once a set_gpus call has returned, the
\* device set is not empty whenever no call is in progress.
C14_SetGpusNormalizes ==
  /\ \A t \in GThreads :
       gpc[t] = "ret" =>
         gpus = IF garg[t] = <<>> THEN <<root_device>> ELSE garg[t]
  /\ (gset /\ caffe_mutex_ = 0) =>
       /\ gpus # <<>>
       /\ device_in_use_per_host_count >= 1

\* a set_gpus([]) is about to return with the root device substituted,
\* after an earlier call has returned
C14_Witness ==
  \E t \in GThreads :
    /\ gpc[t] = "ret"
    /\ garg[t] = <<>>
    /\ gpus = <<root_device>>
    /\ gset

\* ============================================= Flag claims, continued

\* ---------------------------------------------------------------------- C15
\* the wait_reset() calls an armed flag can have released
SetsAvailable == nset + (IF flag0 THEN 1 ELSE 0)

\* a thread is parked in wait_reset() after the one set() of an armed flag
\* that was constructed clear, and no reset() has been called
OneSetPending ==
  /\ \E t \in FThreads : fpc[t] = "wr_blocked"
  /\ nset = 1 /\ ~flag0 /\ nwr = 0
  /\ ~hreset /\ ~disarmed_

\* C15: the wait_reset() calls that return on an armed flag are never more
\* than the set() calls, plus one if the flag was constructed set; and of
\* the threads blocked in wait_reset() when set() is called once, with no
\* reset() or disarm(), one returns.
C15_ExactlyOnceConsumption ==
  /\ [](nwr <= SetsAvailable)
  /\ OneSetPending ~> (nwr = 1 \/ hreset \/ disarmed_)

\* two threads are blocked in wait_reset() of an armed flag constructed
\* clear, set() has been called once and one thread has returned
C15_Witness ==
  /\ nset = 1 /\ ~flag0 /\ nwr = 1 /\ ~hreset /\ ~disarmed_
  /\ \E t, u \in FThreads :
       /\ t # u
       /\ fpc[t] = "wr_blocked" /\ fblk[t]
       /\ fpc[u] = "wr_notify" /\ fblk[u]

\* ---------------------------------------------------------------------- C16
\* thread t takes a step of wait(): it enters, parks, is woken, or returns
WaitActs(t) == fpc'[t] # fpc[t] /\ (InWait(t) \/ InWait(t)')

\* C16: wait() returns only when the flag is set, and no step of wait()
\* changes flag_ or disarmed_: the flag is still set when wait() has returned.
C16_WaitDoesNotConsume ==
  [][\A t \in FThreads :
       /\ WaitActs(t) => UNCHANGED <<flag_, disarmed_>>
       /\ WaitPasses(t) => (is_set /\ is_set')]_vars

\* two wait() calls have returned after the one set() of a flag that was
\* constructed clear, and the flag is still set
C16_Witness ==
  /\ nwait = 2 /\ nset = 1 /\ ~flag0
  /\ is_set
  /\ \A t \in FThreads : fpc[t] = "idle"

\* ============================================ ThreadSafeMap claims, continued

\* ---------------------------------------------------------------------- C17
\* thread t is inside remove_top
InRemoveTop(t) == mpc[t] \in {"rt_begin", "rt_test", "rt_erase"}

\* thread t, inside remove_top, erases the entry and is about to return true
RemoveTopErases(t) == mpc[t] = "rt_erase" /\ mpc'[t] = "ret"

\* C17: from the call of remove_top to its erase the map stays as it was at
\* the call; the entry a successful remove_top returns is the one with the
\* smallest key of that map, with its value; the erase takes that entry out
\* and leaves every other entry as it was; and for no key has remove_top
\* returned more entries than have been created.
C17_RemoveTopTakesSmallest ==
  /\ [][\A t \in MThreads :
          /\ (InRemoveTop(t) /\ ~RemoveTopErases(t)) => map_' = map_
          /\ RemoveTopErases(t) =>
               /\ okey[t] \in DOMAIN map_[1]
               /\ \A j \in DOMAIN map_[1] : okey[t] <= j
               /\ oval[t] = map_[1][okey[t]]
               /\ DOMAIN map_'[1] = DOMAIN map_[1] \ {okey[t]}
               /\ \A j \in DOMAIN map_'[1] : map_'[1][j] = map_[1][j]]_vars
  /\ [](\A k \in Keys : rem[k] <= ins[k])

\* remove_top has returned the smaller key of a map of two entries, the
\* larger key is still there, and the smaller key has been created twice and
\* returned twice
C17_Witness ==
  \E t \in MThreads :
    /\ mpc[t] = "ret" /\ okey[t] = 1
    /\ DOMAIN map_[1] = {2}
    /\ rem[1] = 2 /\ ins[1] = 2

\* ============================ atomic_maximum / atomic_minimum claims, continued

\* ---------------------------------------------------------------------- C18
\* candidate c is strictly better than value v
Better(c, v) == IF akind = "min" THEN c < v ELSE c > v

\* C18: the shared value changes only when a call stores its candidate, and
\* then the candidate is strictly less (atomic_minimum) / greater
\* (atomic_maximum) than the value it replaces; so the value never moves the
\* other way and a candidate that is no improvement leaves it unchanged.  Once
\* a call with candidate c has returned the value is c or better.
C18_NeverRegresses ==
  /\ [][aval' # aval =>
          /\ Better(aval', aval)
          /\ \E t \in AThreads :
               /\ apc[t] = "loop" /\ apc'[t] = "done"
               /\ aval' = anew[t]]_vars
  /\ [](\A t \in AThreads :
          apc[t] = "done" => (aval = anew[t] \/ Better(aval, anew[t])))

\* all calls of atomic_minimum have returned: one lowered the value to its
\* candidate and another, whose candidate was no improvement, left it alone
C18_Witness ==
  /\ AllDone
  /\ akind = "min"
  /\ aval < ainit
  /\ \E t, u \in AThreads :
       /\ anew[t] = aval
       /\ anew[u] >= ainit

\* ---------------------------------------------------------------------- C19
\* the value all the calls together must leave: the least (atomic_minimum) /
\* the greatest (atomic_maximum) of the initial value and the candidates
Outcome ==
  LET all == {anew[t] : t \in RThreads} \cup {ainit}
  IN  IF akind = "min"
      THEN CHOOSE v \in all : \A w \in all : v <= w
      ELSE CHOOSE v \in all : \A w \in all : v >= w

\* C19: a spurious compare_exchange_weak failure leaves the shared value
\* unchanged and its caller in the loop, where it retries; when all the calls
\* have returned the value is the one the candidates determine, however many
\* spurious failures there were; and every call returns, if no thread's CAS
\* fails spuriously for ever.
C19_ToleratesSpuriousFailures ==
  /\ [][nspur' # nspur =>
          /\ aval' = aval
          /\ apc' = apc
          /\ aprev' = aprev]_vars
  /\ [](AllDone => aval = Outcome)
  /\ \A t \in RThreads : <>(apc[t] = "done")

\* all the calls have returned, one of them has changed the value, and
\* MaxSpurious spurious failures happened on the way
C19_Witness ==
  /\ AllDone
  /\ nspur = MaxSpurious
  /\ aval # ainit

\* ====================================================== set_mode, continued

\* ---------------------------------------------------------------------- C20
\* no set_mode call is in progress
ModeQuiet == \A t \in SThreads : spc[t] \in {"idle", "ret"}

\* C20 as stated: init() is invoked once for each change of the mode value,
\* so that with no set_mode call in progress the invocations of init() are as
\* many as the changes of mode_ and never more while calls are in progress;
\* and no thread is at its init() while another holds caffe_mutex_ about to
\* assign mode_.
C20_Original ==
  /\ inits <= transitions
  /\ ModeQuiet => inits = transitions
  /\ \A t, u \in SThreads :
       ~(spc[t] = "init" /\ spc[u] = "cs")

\* ====================================================== set_gpus, continued

\* ---------------------------------------------------------------------- C21
\* C21 as stated: with a device set that has been made non-empty, a reader
\* never finds gpus() empty nor device_in_use_per_host_count() 0, whatever
\* set_gpus calls run meanwhile.
C21_Original ==
  \A r \in Readers :
    /\ rpc[r] = "gpus" => rlist[r] # <<>>
    /\ rpc[r] = "count" => rcount[r] # 0

====
